---- MODULE Spec2Model ----
(***************************************************************************)
(* Model of the download manager of adamwoolhether/httper:                 *)
(*   client/download/queue.go         Queue: Start, Wait, Shutdown          *)
(*   client/download/queue_result.go  Result: Add, Done, Err, Wait, Cancel  *)
(*   client/download/download.go      Handle (the transfer executor)        *)
(*   client/download/model.go         sentinel errors, contextReader        *)
(* Two specifications share the module: Spec drives one Queue with its     *)
(* tasks and the goroutines that call Wait and Err; HandleSpec drives      *)
(* Handle calls that share one destination path on a small file system.    *)
(***************************************************************************)
EXTENDS Integers, Sequences, FiniteSets, TLC

\* ------------------------------------------------------------------ bounds
MaxTasks == 2      \* Results created by Start/Add in one behaviour
MaxConc == 1       \* largest maxConcurrent given to NewQueue (0 = unlimited)
NumWaiters == 1    \* goroutines that call Wait or Err
MaxLen == 2        \* longest source stream, in bytes
MaxOpts == 2       \* longest option list given to Handle
DigestMod == 3     \* number of distinct digests of the model hash

Tasks == 1..MaxTasks
Waiters == 1..NumWaiters

\* ------------------------------------------------------------------ errors
\* An error value is a record: kind names the sentinel or the wrapper type,
\* id tells apart the errors of distinct work functions, subs is what
\* Unwrap() returns (empty for a leaf).
MkErr(k, i, s) == [kind |-> k, id |-> i, subs |-> s]
Nil == MkErr("nil", 0, <<>>)
Canceled == MkErr("context.Canceled", 0, <<>>)
DeadlineExceeded == MkErr("context.DeadlineExceeded", 0, <<>>)
ErrGroupShutdown == MkErr("ErrGroupShutdown", 0, <<>>)
ErrDownloadCancelled == MkErr("ErrDownloadCancelled", 0, <<>>)
ErrConfig == MkErr("WithBatch cannot be used with Result.Add", 0, <<>>)
ErrDestEmpty == MkErr("destPath must not be empty", 0, <<>>)
WorkErr(t) == MkErr("work", t, <<>>)

\* fmt.Errorf("%w: %w", a, b): an error that unwraps to both a and b.
Wrap2(a, b) == MkErr("wrap", 0, <<a, b>>)

JoinM(es) == IF es = <<>> THEN Nil ELSE es[1]
\* errors.Join: nil values are discarded; nil if none remain, else one
\* error that unwraps to all of them, in order.
Join(es) ==
    LET nn == SelectSeq(es, LAMBDA e : e # Nil)
    IN IF nn = <<>> THEN Nil ELSE MkErr("join", 0, nn)

\* errors.Is: err matches target if it is target or anything it unwraps to
\* matches target (depth bounded by the nesting the model builds: join of
\* wrap of leaf).
IsLeaf(e, target) == e # Nil /\ e = target
Is1(e, target) ==
    IsLeaf(e, target) \/ \E i \in 1..Len(e.subs) : IsLeaf(e.subs[i], target)
Is(e, target) ==
    IsLeaf(e, target) \/ \E i \in 1..Len(e.subs) : Is1(e.subs[i], target)

ScopeErrs == {Canceled, DeadlineExceeded}

ErrContentLengthMismatch == MkErr("ErrContentLengthMismatch", 0, <<>>)
ErrChecksumMismatch == MkErr("ErrChecksumMismatch", 0, <<>>)
\* an error of the operating system or of the underlying stream
EIO == MkErr("EIO", 0, <<>>)
\* fmt.Errorf("<msg>: %w", e)
Wrap1(msg, e) == MkErr(msg, 0, <<e>>)
\* &Error{Err: sentinel, Detail: ...}, which unwraps to the sentinel
DetailErr(sentinel) == MkErr("download.Error", 0, <<sentinel>>)

\* --------------------------------------------------------------- variables
VARIABLES
    maxc,       \* maxConcurrent the Queue was created with
    sem,        \* number of tokens in the channel g.sem
    shutdown,   \* g.shutdown
    errs,       \* g.errs
    wg,         \* counter of g.wg
    topErr,     \* Err() of the caller-supplied scope (Nil while live)
    nres,       \* Results handed out so far
    pc,         \* position of each task goroutine
    rerr,       \* r.err
    done,       \* r.done is closed
    ctxErr,     \* Err() of the task's private scope (Nil while live)
    slot,       \* the deferred <-g.sem of the task is registered
    ran,        \* fn was invoked for the task
    group,      \* r.group, the Queue the Result refers to
    cpc,        \* position of each caller goroutine (in Wait or in Err)
    ctgt,       \* the Result whose Err the caller called (0: it called Wait)
    cres,       \* value the caller's last call returned
    panicked,   \* the process died of a WaitGroup panic
    \* ---- Handle and the file system
    dest,       \* the file at destPath: [exists, data]
    temp,       \* the temp file of the current call: [exists, data]
    hpc,        \* position of each Handle call
    hdst,       \* destPath of the call ("" when the caller passed none)
    hopt,       \* opts, as resolved from the option list
    hclen,      \* contentLength
    hctx,       \* Err() of the scope given to Handle (Nil while live)
    hsum,       \* state of the running hash fed by the MultiWriter
    heof,       \* the source stream was read to its end
    hsucc,      \* the local variable successful
    hret,       \* the value Handle returned
    hlog        \* "failed to remove temp file" was logged by the call

qvars == <<maxc, sem, shutdown, errs, wg, topErr, nres, pc, rerr, done,
           ctxErr, slot, ran, group, cpc, ctgt, cres, panicked>>
hvars == <<dest, temp, hpc, hdst, hopt, hclen, hctx, hsum, heof, hsucc, hret,
           hlog>>
vars == <<qvars, hvars>>

\* ------------------------------------------------------- files and options
Handles == {1}     \* the goroutines that call Handle

NoFile == [exists |-> FALSE, data |-> <<>>]
File(d) == [exists |-> TRUE, data |-> d]
\* what destPath holds before the first call, when it exists
OldData == <<0>>

TempOfM(h) == 1
\* the temp file of call h: os.CreateTemp picks a name no other file has
TempOf(h) == h

\* byte i of the stream handed to call h (distinct over calls and positions)
SrcByte(h, i) == (h - 1) * (MaxLen + 1) + i

\* the model hash: hash.Write adds the bytes into the state
HashWrite(s, b) == (s + b) % DigestMod
\* hex.EncodeToString(hash.Sum(nil)), one digit per digest here
HexDigits == <<"0", "1", "2", "3", "4", "5", "6", "7", "8", "9">>
HexOf(s) == HexDigits[s + 1]

\* The options that change what Handle does (WithProgress only adds log
\* lines and is left out). WithChecksum carries the expected hex digest ("" when the
\* caller passes an empty string) and whether the hash is nil.
Opt(n, e, nh) == [name |-> n, exp |-> e, nilHash |-> nh]
Expecteds == {""} \cup {HexOf(d) : d \in 0..(DigestMod - 1)}
Opts ==
    {Opt("WithSkipExisting", "", FALSE)}
    \cup {Opt("WithChecksum", e, nh) : e \in Expecteds, nh \in BOOLEAN}
OptLists == UNION {[1..n -> Opts] : n \in 0..MaxOpts}

\* var opts options
NoOpts == [skip |-> FALSE, hasSum |-> FALSE, exp |-> "", err |-> Nil]

\* one option function applied to opts
ApplyOpt(o, op) ==
    IF op.name = "WithSkipExisting" THEN [o EXCEPT !.skip = TRUE]
    ELSE IF op.nilHash
         THEN [o EXCEPT !.err = MkErr("hash must not be nil", 0, <<>>)]
    ELSE IF op.exp = ""
         THEN [o EXCEPT !.err =
                  MkErr("expected checksum must not be empty", 0, <<>>)]
    ELSE [o EXCEPT !.hasSum = TRUE, !.exp = op.exp]

OptFailedM(o) == FALSE
\* if err := opt(&opts); err != nil { return ... }
OptFailed(o) == o.err # Nil

\* for _, opt := range optFns { if err := opt(&opts); err != nil { return } }
RECURSIVE ApplyFrom(_, _, _)
ApplyFrom(o, ops, i) ==
    IF i > Len(ops) \/ OptFailed(o) THEN o
    ELSE ApplyFrom(ApplyOpt(o, ops[i]), ops, i + 1)
ApplyOptions(ops) == ApplyFrom(NoOpts, ops, 1)

\* ------------------------------------------------------------- batch group
\* The values of Options.Group and Result.group.
NoQueue == "nil"
ThisQueue == "the Queue"
OtherQueue == "a new Queue"      \* what newQueue returns inside WithBatch

\* The options a caller can pass to Add, by what they do to Options.Group:
\* WithBatch sets it, WithSkipExisting (like every other option) leaves it.
AddOpts == {"WithBatch", "WithSkipExisting"}
AddOptLists == UNION {[1..n -> AddOpts] : n \in 0..MaxOpts}

\* the destination paths: empty, or the one path of the model
DestPaths == {"", "dest"}

\* var opts Options, as far as the batch group goes
NoGroup == [grp |-> NoQueue, err |-> Nil]

WithBatchM(o) == [o EXCEPT !.grp = OtherQueue]
\* WithBatch(maxConcurrent): an error when the group is already set
WithBatch(o) ==
    IF o.grp # NoQueue THEN [o EXCEPT !.err = ErrConfig]
    ELSE [o EXCEPT !.grp = OtherQueue]

withBatchM(o, queue) == o
\* withBatch(queue): opts.Group = queue
withBatch(o, queue) == [o EXCEPT !.grp = queue]

\* one option of the list Add hands to the adder, applied to opts
ApplyGroupOpt(o, name, queue) ==
    IF name = "withBatch" THEN withBatch(o, queue)
    ELSE IF name = "WithBatch" THEN WithBatch(o)
    ELSE o

\* slices.Concat([]Option{withBatch(r.group)}, optFns)
AddOptions(optFns) == <<"withBatch">> \o optFns

\* ------------------------------------------------------------------- Queue
HasSemM == maxc >= 0
\* NewQueue: the channel exists only for maxConcurrent > 0.
HasSem == maxc > 0

QInit(mc) ==
    /\ maxc = mc
    /\ sem = 0
    /\ shutdown = FALSE
    /\ errs = <<>>
    /\ wg = 0
    /\ topErr = Nil
    /\ nres = 0
    /\ pc = [t \in Tasks |-> "none"]
    /\ rerr = [t \in Tasks |-> Nil]
    /\ done = [t \in Tasks |-> FALSE]
    /\ ctxErr = [t \in Tasks |-> Nil]
    /\ slot = [t \in Tasks |-> FALSE]
    /\ ran = [t \in Tasks |-> FALSE]
    /\ group = [t \in Tasks |-> NoQueue]
    /\ cpc = [c \in Waiters |-> "idle"]
    /\ ctgt = [c \in Waiters |-> 0]
    /\ cres = [c \in Waiters |-> Nil]
    /\ panicked = FALSE

\* No Handle call is in progress and none was made.
HIdle ==
    /\ temp = [h \in Handles |-> NoFile]
    /\ hpc = [h \in Handles |-> "idle"]
    /\ hdst = [h \in Handles |-> "dest"]
    /\ hopt = [h \in Handles |-> NoOpts]
    /\ hclen = [h \in Handles |-> -1]
    /\ hctx = [h \in Handles |-> Nil]
    /\ hsum = [h \in Handles |-> 0]
    /\ heof = [h \in Handles |-> FALSE]
    /\ hsucc = [h \in Handles |-> FALSE]
    /\ hret = [h \in Handles |-> Nil]
    /\ hlog = [h \in Handles |-> FALSE]

Init ==
    /\ \E mc \in -1..MaxConc : QInit(mc)
    /\ dest = NoFile
    /\ HIdle

\* Result t is a transfer started on this Queue (not a pre-failed Result, and
\* not a transfer handed to another Queue)
Launched(t) == t <= nres /\ pc[t] \notin {"prefailed", "foreign"}

\* g.recordErr
recordErr(e) == Append(errs, e)

WgAddM(n) == n
\* g.wg.Add(1), in the caller's goroutine before the go statement
WgAdd(n) == n + 1

\* The body of Start up to the go statement, for the new Result t.
Launch(t) ==
    /\ ctxErr' = [ctxErr EXCEPT ![t] = topErr]
    /\ wg' = WgAdd(wg)
    /\ pc' = [pc EXCEPT ![t] = IF HasSem THEN "admit" ELSE "chk"]
    /\ group' = [group EXCEPT ![t] = ThisQueue]
    /\ nres' = t

Start ==
    /\ ~panicked
    /\ nres < MaxTasks
    /\ Launch(nres + 1)
    /\ UNCHANGED <<maxc, sem, shutdown, errs, topErr, rerr, done, slot, ran,
                   cpc, ctgt, cres, panicked>>
    /\ UNCHANGED hvars

SemFreeM(n) == n <= maxc
\* a send on g.sem can proceed
SemFree(n) == n < maxc

\* select case g.sem <- struct{}{}: the slot is taken and its release deferred
TaskAcquire(t) ==
    /\ ~panicked
    /\ pc[t] = "admit"
    /\ SemFree(sem)
    /\ sem' = sem + 1
    /\ slot' = [slot EXCEPT ![t] = TRUE]
    /\ pc' = [pc EXCEPT ![t] = "chk"]
    /\ UNCHANGED <<maxc, shutdown, errs, wg, topErr, nres, rerr, done, ctxErr,
                   ran, cpc, ctgt, cres, panicked>>
    /\ UNCHANGED group
    /\ UNCHANGED hvars

TaskScopeEndedM(t) ==
    /\ ~panicked
    /\ pc[t] = "admit"
    /\ ctxErr[t] # Nil
    /\ rerr' = [rerr EXCEPT ![t] = ctxErr[t]]
    /\ pc' = [pc EXCEPT ![t] = "fin"]
    /\ UNCHANGED <<maxc, sem, shutdown, errs, wg, topErr, nres, done, ctxErr,
                   slot, ran, cpc, ctgt, cres, panicked>>
    /\ UNCHANGED group
    /\ UNCHANGED hvars
\* select case <-ctx.Done(): r.err = ctx.Err(); g.recordErr(r.err); return
TaskScopeEnded(t) ==
    /\ ~panicked
    /\ pc[t] = "admit"
    /\ ctxErr[t] # Nil
    /\ rerr' = [rerr EXCEPT ![t] = ctxErr[t]]
    /\ errs' = recordErr(ctxErr[t])
    /\ pc' = [pc EXCEPT ![t] = "fin"]
    /\ UNCHANGED <<maxc, sem, shutdown, wg, topErr, nres, done, ctxErr,
                   slot, ran, cpc, ctgt, cres, panicked>>
    /\ UNCHANGED group
    /\ UNCHANGED hvars

ShutdownSeenM(b) == FALSE
\* g.shutdown.Load()
ShutdownSeen(b) == b

AfterBodyM(t) == IF slot[t] /\ ran[t] THEN "rel" ELSE "fin"
\* position of a task when the body of the goroutine returns
AfterBody(t) == IF slot[t] THEN "rel" ELSE "fin"

\* if g.shutdown.Load() { r.err = ErrGroupShutdown; g.recordErr(r.err);
\* return }; otherwise fn is invoked
TaskCheck(t) ==
    /\ ~panicked
    /\ pc[t] = "chk"
    /\ IF ShutdownSeen(shutdown)
       THEN /\ rerr' = [rerr EXCEPT ![t] = ErrGroupShutdown]
            /\ errs' = recordErr(ErrGroupShutdown)
            /\ pc' = [pc EXCEPT ![t] = AfterBody(t)]
            /\ ran' = ran
       ELSE /\ pc' = [pc EXCEPT ![t] = "work"]
            /\ ran' = [ran EXCEPT ![t] = TRUE]
            /\ UNCHANGED <<rerr, errs>>
    /\ UNCHANGED <<maxc, sem, shutdown, wg, topErr, nres, done, ctxErr,
                   slot, cpc, ctgt, cres, panicked>>
    /\ UNCHANGED group
    /\ UNCHANGED hvars

\* What a copy that was stopped by its scope returns (Handle): a cancelled
\* scope gives an error matching ErrDownloadCancelled, any other scope error
\* is only wrapped.
CopyErr(ce) ==
    IF Is(ce, Canceled) THEN Wrap2(ErrDownloadCancelled, ce)
    ELSE MkErr("copying file body", 0, <<ce>>)

\* The values fn(ctx) can return: success, its own failure, or, once its
\* scope has ended, an error that wraps the scope's error.
WorkOutcomes(t) ==
    {Nil, WorkErr(t)} \cup (IF ctxErr[t] # Nil THEN {CopyErr(ctxErr[t])} ELSE {})

\* r.err = fn(ctx); if r.err != nil { g.recordErr(r.err) }
TaskWorkReturn(t) ==
    /\ ~panicked
    /\ pc[t] = "work"
    /\ \E e \in WorkOutcomes(t) :
          /\ rerr' = [rerr EXCEPT ![t] = e]
          /\ errs' = IF e # Nil THEN recordErr(e) ELSE errs
    /\ pc' = [pc EXCEPT ![t] = AfterBody(t)]
    /\ UNCHANGED <<maxc, sem, shutdown, wg, topErr, nres, done, ctxErr,
                   slot, ran, cpc, ctgt, cres, panicked>>
    /\ UNCHANGED group
    /\ UNCHANGED hvars

\* the deferred <-g.sem
TaskRelease(t) ==
    /\ ~panicked
    /\ pc[t] = "rel"
    /\ sem' = sem - 1
    /\ slot' = [slot EXCEPT ![t] = FALSE]
    /\ pc' = [pc EXCEPT ![t] = "fin"]
    /\ UNCHANGED <<maxc, shutdown, errs, wg, topErr, nres, rerr, done, ctxErr,
                   ran, cpc, ctgt, cres, panicked>>
    /\ UNCHANGED group
    /\ UNCHANGED hvars

TaskCloseEarlyM(t) ==
    /\ ~panicked
    /\ pc[t] \in {"rel", "fin"}
    /\ ~done[t]
    /\ ctxErr' = [ctxErr EXCEPT ![t] = IF @ = Nil THEN Canceled ELSE @]
    /\ done' = [done EXCEPT ![t] = TRUE]
    /\ pc' = [pc EXCEPT ![t] = IF @ = "fin" THEN "wgdone" ELSE @]
    /\ UNCHANGED <<maxc, sem, shutdown, errs, wg, topErr, nres, rerr, slot,
                   ran, cpc, ctgt, cres, panicked>>
    /\ UNCHANGED group
    /\ UNCHANGED hvars
TaskCloseM(t) ==
    /\ ~panicked
    /\ pc[t] = "fin"
    /\ ctxErr' = [ctxErr EXCEPT ![t] = IF @ = Nil THEN Canceled ELSE @]
    /\ done' = [done EXCEPT ![t] = rerr[t] = Nil]
    /\ pc' = [pc EXCEPT ![t] = "wgdone"]
    /\ UNCHANGED <<maxc, sem, shutdown, errs, wg, topErr, nres, rerr, slot,
                   ran, cpc, ctgt, cres, panicked>>
    /\ UNCHANGED group
    /\ UNCHANGED hvars
\* the outer deferred function: cancel(); close(r.done)
TaskClose(t) ==
    /\ ~panicked
    /\ pc[t] = "fin"
    /\ ctxErr' = [ctxErr EXCEPT ![t] = IF @ = Nil THEN Canceled ELSE @]
    /\ done' = [done EXCEPT ![t] = TRUE]
    /\ pc' = [pc EXCEPT ![t] = "wgdone"]
    /\ UNCHANGED <<maxc, sem, shutdown, errs, wg, topErr, nres, rerr, slot,
                   ran, cpc, ctgt, cres, panicked>>
    /\ UNCHANGED group
    /\ UNCHANGED hvars

\* the outer deferred function: g.wg.Done(). The decrement that reaches zero
\* releases every goroutine blocked in wg.Wait.
TaskWgDone(t) ==
    /\ ~panicked
    /\ pc[t] = "wgdone"
    /\ wg' = wg - 1
    /\ pc' = [pc EXCEPT ![t] = "exited"]
    /\ cpc' = [c \in Waiters |->
                 IF wg' = 0 /\ cpc[c] = "blocked" THEN "released" ELSE cpc[c]]
    /\ UNCHANGED <<maxc, sem, shutdown, errs, topErr, nres, rerr, done, ctxErr,
                   slot, ran, ctgt, cres, panicked>>
    /\ UNCHANGED group
    /\ UNCHANGED hvars

ShutdownWakesM ==
    /\ ~panicked
    /\ shutdown' = TRUE
    /\ pc' = [t \in Tasks |-> IF pc[t] = "admit" THEN "chk" ELSE pc[t]]
    /\ UNCHANGED <<maxc, sem, errs, wg, topErr, nres, rerr, done, ctxErr,
                   slot, ran, cpc, ctgt, cres, panicked>>
    /\ UNCHANGED group
    /\ UNCHANGED hvars
ShutdownM ==
    /\ ~panicked
    /\ shutdown' = TRUE
    /\ ctxErr' = [t \in Tasks |->
                    IF Launched(t) /\ ctxErr[t] = Nil THEN Canceled ELSE ctxErr[t]]
    /\ UNCHANGED <<maxc, sem, errs, wg, topErr, nres, pc, rerr, done,
                   slot, ran, cpc, ctgt, cres, panicked>>
    /\ UNCHANGED group
    /\ UNCHANGED hvars
\* Queue.Shutdown
Shutdown ==
    /\ ~panicked
    /\ shutdown' = TRUE
    /\ UNCHANGED <<maxc, sem, errs, wg, topErr, nres, pc, rerr, done, ctxErr,
                   slot, ran, cpc, ctgt, cres, panicked>>
    /\ UNCHANGED group
    /\ UNCHANGED hvars

CancelM(r) ==
    /\ ~panicked
    /\ r <= nres
    /\ ctxErr' = [t \in Tasks |->
                    IF Launched(t) /\ ctxErr[t] = Nil THEN Canceled ELSE ctxErr[t]]
    /\ UNCHANGED <<maxc, sem, shutdown, errs, wg, topErr, nres, pc, rerr, done,
                   slot, ran, cpc, ctgt, cres, panicked>>
    /\ UNCHANGED group
    /\ UNCHANGED hvars
\* Result.Cancel: r.cancel() ends the private scope of r if it is still
\* live; the cancel of a pre-failed Result is func() {}.
Cancel(r) ==
    /\ ~panicked
    /\ r <= nres
    /\ ctxErr' = [ctxErr EXCEPT ![r] =
                    IF pc[r] # "prefailed" /\ @ = Nil THEN Canceled ELSE @]
    /\ UNCHANGED <<maxc, sem, shutdown, errs, wg, topErr, nres, pc, rerr, done,
                   slot, ran, cpc, ctgt, cres, panicked>>
    /\ UNCHANGED group
    /\ UNCHANGED hvars

TopEndM(cause) ==
    /\ ~panicked
    /\ topErr = Nil
    /\ topErr' = cause
    /\ UNCHANGED <<maxc, sem, shutdown, errs, wg, nres, pc, rerr, done, ctxErr,
                   slot, ran, cpc, ctgt, cres, panicked>>
    /\ UNCHANGED group
    /\ UNCHANGED hvars
\* The caller-supplied scope ends (cancel func or deadline): every private
\* scope derived from it (context.WithCancel in Start) that is still live
\* ends with the same error.
TopEnd(cause) ==
    /\ ~panicked
    /\ topErr = Nil
    /\ topErr' = cause
    /\ ctxErr' = [t \in Tasks |->
                    IF Launched(t) /\ ctxErr[t] = Nil THEN cause ELSE ctxErr[t]]
    /\ UNCHANGED <<maxc, sem, shutdown, errs, wg, nres, pc, rerr, done,
                   slot, ran, cpc, ctgt, cres, panicked>>
    /\ UNCHANGED group
    /\ UNCHANGED hvars

\* The injected Adder (Client.DownloadAsync) as Result.Add calls it: an
\* empty destPath is rejected, then the options are applied in order and
\* the first failure is returned; otherwise the transfer is started on the
\* Queue the options name (a Queue of its own when they name none).
RECURSIVE GroupFrom(_, _, _, _)
GroupFrom(o, optFns, i, queue) ==
    IF i > Len(optFns) \/ o.err # Nil THEN o
    ELSE GroupFrom(ApplyGroupOpt(o, optFns[i], queue), optFns, i + 1, queue)

AdderErr(destPath, optFns, queue) ==
    IF destPath = "" THEN ErrDestEmpty
    ELSE GroupFrom(NoGroup, optFns, 1, queue).err

AdderGroup(optFns, queue) ==
    LET o == GroupFrom(NoGroup, optFns, 1, queue)
    IN IF o.grp = NoQueue THEN OtherQueue ELSE o.grp

AddRecordM(queue, err) == errs
\* r.group.recordErr(err) in Add: the error list of this Queue afterwards
AddRecord(queue, err) == IF queue = ThisQueue THEN recordErr(err) ELSE errs

\* Result.Add on Result r. A failing adder yields a pre-failed Result: done
\* already closed, err set, cancel a no-op, group the Queue of r, and the
\* error recorded in that Queue. Otherwise the Result is the adder's.
Add(r, destPath, optFns) ==
    /\ ~panicked
    /\ r <= nres
    /\ nres < MaxTasks
    /\ LET t == nres + 1
           all == AddOptions(optFns)
           err == AdderErr(destPath, all, group[r])
       IN IF err # Nil
          THEN /\ nres' = t
               /\ pc' = [pc EXCEPT ![t] = "prefailed"]
               /\ done' = [done EXCEPT ![t] = TRUE]
               /\ rerr' = [rerr EXCEPT ![t] = err]
               /\ group' = [group EXCEPT ![t] = group[r]]
               /\ errs' = AddRecord(group[r], err)
               /\ UNCHANGED <<wg, ctxErr>>
          ELSE IF AdderGroup(all, group[r]) = ThisQueue
          THEN /\ Launch(t)
               /\ UNCHANGED <<done, rerr, errs>>
          ELSE \* the transfer runs on another Queue
               /\ nres' = t
               /\ pc' = [pc EXCEPT ![t] = "foreign"]
               /\ group' = [group EXCEPT ![t] = AdderGroup(all, group[r])]
               /\ UNCHANGED <<wg, ctxErr, done, rerr, errs>>
    /\ UNCHANGED <<maxc, sem, shutdown, topErr, slot, ran, cpc, ctgt, cres,
                   panicked>>
    /\ UNCHANGED hvars

\* Queue.Wait / Result.Wait, first half: g.wg.Wait() returns at once when
\* the counter is zero and blocks otherwise.
WaitCall(c) ==
    /\ ~panicked
    /\ cpc[c] = "idle"
    /\ cpc' = [cpc EXCEPT ![c] = IF wg = 0 THEN "woken" ELSE "blocked"]
    /\ ctgt' = [ctgt EXCEPT ![c] = 0]
    /\ cres' = [cres EXCEPT ![c] = Nil]
    /\ UNCHANGED <<maxc, sem, shutdown, errs, wg, topErr, nres, pc, rerr, done,
                   ctxErr, slot, ran, panicked>>
    /\ UNCHANGED group
    /\ UNCHANGED hvars

\* A released waiter resumes inside wg.Wait: sync.WaitGroup panics
\* ("WaitGroup is reused before previous Wait has returned") when the
\* counter was raised again in between.
WaitWake(c) ==
    /\ ~panicked
    /\ cpc[c] = "released"
    /\ IF wg # 0
       THEN panicked' = TRUE /\ cpc' = cpc
       ELSE panicked' = panicked /\ cpc' = [cpc EXCEPT ![c] = "woken"]
    /\ UNCHANGED <<maxc, sem, shutdown, errs, wg, topErr, nres, pc, rerr, done,
                   ctxErr, slot, ran, ctgt, cres>>
    /\ UNCHANGED group
    /\ UNCHANGED hvars

WaitReturnM(c) ==
    /\ ~panicked
    /\ cpc[c] = "woken"
    /\ cres' = [cres EXCEPT ![c] = Join(errs)]
    /\ errs' = <<>>
    /\ cpc' = [cpc EXCEPT ![c] = "idle"]
    /\ UNCHANGED <<maxc, sem, shutdown, wg, topErr, nres, pc, rerr, done,
                   ctxErr, slot, ran, ctgt, panicked>>
    /\ UNCHANGED group
    /\ UNCHANGED hvars
\* Queue.Wait, second half: under the mutex, return errors.Join(g.errs...)
WaitReturn(c) ==
    /\ ~panicked
    /\ cpc[c] = "woken"
    /\ cres' = [cres EXCEPT ![c] = Join(errs)]
    /\ cpc' = [cpc EXCEPT ![c] = "idle"]
    /\ UNCHANGED <<maxc, sem, shutdown, errs, wg, topErr, nres, pc, rerr, done,
                   ctxErr, slot, ran, ctgt, panicked>>
    /\ UNCHANGED group
    /\ UNCHANGED hvars

\* Result.Err on Result r, first half: the caller blocks on <-r.done
ErrCall(c, r) ==
    /\ ~panicked
    /\ cpc[c] = "idle"
    /\ r <= nres
    /\ cpc' = [cpc EXCEPT ![c] = "errwait"]
    /\ ctgt' = [ctgt EXCEPT ![c] = r]
    /\ cres' = [cres EXCEPT ![c] = Nil]
    /\ UNCHANGED <<maxc, sem, shutdown, errs, wg, topErr, nres, pc, rerr, done,
                   ctxErr, slot, ran, panicked>>
    /\ UNCHANGED group
    /\ UNCHANGED hvars

DoneClosedM(r) == TRUE
\* a receive from r.done can proceed
DoneClosed(r) == done[r]

\* Result.Err, second half: return r.err
ErrReturn(c) ==
    /\ ~panicked
    /\ cpc[c] = "errwait"
    /\ DoneClosed(ctgt[c])
    /\ cres' = [cres EXCEPT ![c] = rerr[ctgt[c]]]
    /\ cpc' = [cpc EXCEPT ![c] = "idle"]
    /\ UNCHANGED <<maxc, sem, shutdown, errs, wg, topErr, nres, pc, rerr, done,
                   ctxErr, slot, ran, ctgt, panicked>>
    /\ UNCHANGED group
    /\ UNCHANGED hvars

\* Once the process has panicked no goroutine takes a step.
Next ==
    \/ Start
    \/ Shutdown
    \/ \E cause \in ScopeErrs : TopEnd(cause)
    \/ \E r \in Tasks : Cancel(r)
    \/ \E r \in Tasks, destPath \in DestPaths, optFns \in AddOptLists :
          Add(r, destPath, optFns)
    \/ \E t \in Tasks : TaskAcquire(t)
    \/ \E t \in Tasks : TaskScopeEnded(t)
    \/ \E t \in Tasks : TaskCheck(t)
    \/ \E t \in Tasks : TaskWorkReturn(t)
    \/ \E t \in Tasks : TaskRelease(t)
    \/ \E t \in Tasks : TaskClose(t)
    \/ \E t \in Tasks : TaskWgDone(t)
    \/ \E c \in Waiters : WaitCall(c)
    \/ \E c \in Waiters : WaitWake(c)
    \/ \E c \in Waiters : WaitReturn(c)
    \/ \E c \in Waiters, r \in Tasks : ErrCall(c, r)
    \/ \E c \in Waiters : ErrReturn(c)

Spec == Init /\ [][Next]_vars

\* Fair scheduling of the goroutines: a step of a task's goroutine or of a
\* caller inside Wait or Err that stays possible is eventually taken, and
\* every fn returns. Calls made by the program's own code (Start, Add,
\* Shutdown, Cancel, Wait, Err, ending the caller's scope) are not forced.
Fairness ==
    /\ \A t \in Tasks : WF_vars(TaskAcquire(t))
    /\ \A t \in Tasks : WF_vars(TaskScopeEnded(t))
    /\ \A t \in Tasks : WF_vars(TaskCheck(t))
    /\ \A t \in Tasks : WF_vars(TaskWorkReturn(t))
    /\ \A t \in Tasks : WF_vars(TaskRelease(t))
    /\ \A t \in Tasks : WF_vars(TaskClose(t))
    /\ \A t \in Tasks : WF_vars(TaskWgDone(t))
    /\ \A c \in Waiters : WF_vars(WaitWake(c))
    /\ \A c \in Waiters : WF_vars(WaitReturn(c))
    /\ \A c \in Waiters : WF_vars(ErrReturn(c))

LiveSpec == Init /\ [][Next]_vars /\ Fairness

\* ------------------------------------------------------------------ Handle
\* Handle is called: the options are applied in order and the first failure
\* is returned before anything else happens.
HStart(h, destPath, ops, clen) ==
    /\ hpc[h] \in {"idle", "ret"}
    /\ LET o == ApplyOptions(ops) IN
         IF o.err # Nil
         THEN /\ hpc' = [hpc EXCEPT ![h] = "ret"]
              /\ hret' = [hret EXCEPT ![h] = Wrap1("applying option", o.err)]
              /\ UNCHANGED <<hopt, hclen, hdst>>
         ELSE /\ hpc' = [hpc EXCEPT ![h] = IF o.skip THEN "stat" ELSE "create"]
              /\ hret' = [hret EXCEPT ![h] = Nil]
              /\ hopt' = [hopt EXCEPT ![h] = o]
              /\ hclen' = [hclen EXCEPT ![h] = clen]
              /\ hdst' = [hdst EXCEPT ![h] = destPath]
    /\ hlog' = [hlog EXCEPT ![h] = FALSE]
    /\ temp' = [temp EXCEPT ![TempOf(h)] = NoFile]
    /\ UNCHANGED <<dest, hctx, hsum, heof, hsucc>>
    /\ UNCHANGED qvars

\* Client.Download: an empty destPath is refused before the request is sent;
\* otherwise the response body goes to Handle, whose error is returned
\* wrapped with %w (hret holds what Handle returned).
Download(h, destPath, ops, clen) ==
    IF destPath = ""
    THEN /\ hpc[h] \in {"idle", "ret"}
         /\ hpc' = [hpc EXCEPT ![h] = "ret"]
         /\ hret' = [hret EXCEPT ![h] = ErrDestEmpty]
         /\ hlog' = [hlog EXCEPT ![h] = FALSE]
         /\ temp' = [temp EXCEPT ![TempOf(h)] = NoFile]
         /\ UNCHANGED <<dest, hdst, hopt, hclen, hctx, hsum, heof, hsucc>>
         /\ UNCHANGED qvars
    ELSE HStart(h, destPath, ops, clen)

\* Handle returns: its locals are gone (the variables that hold them go
\* back to their initial values).
Gone(h) ==
    /\ hpc' = [hpc EXCEPT ![h] = "ret"]
    /\ hdst' = [hdst EXCEPT ![h] = "dest"]
    /\ hopt' = [hopt EXCEPT ![h] = NoOpts]
    /\ hclen' = [hclen EXCEPT ![h] = -1]
    /\ hctx' = [hctx EXCEPT ![h] = Nil]
    /\ hsum' = [hsum EXCEPT ![h] = 0]
    /\ heof' = [heof EXCEPT ![h] = FALSE]
    /\ hsucc' = [hsucc EXCEPT ![h] = FALSE]

\* The scope given to the call ends. Handle reads the scope only through
\* contextReader, so nothing after the copy observes it.
HScopeEnd(h, cause) ==
    /\ hpc[h] \in {"stat", "create", "copy"}
    /\ hctx[h] = Nil
    /\ hctx' = [hctx EXCEPT ![h] = cause]
    /\ UNCHANGED <<dest, temp, hpc, hopt, hclen, hsum, heof, hsucc, hret, hlog>>
    /\ UNCHANGED hdst
    /\ UNCHANGED qvars

StatOKM(h) == FALSE
\* os.Stat(destPath) returns a nil error: a file is there (never for "")
StatOK(h) == hdst[h] # "" /\ dest.exists

\* if opts.skipExisting { if _, err := os.Stat(destPath); err == nil {
\* return nil } }
HStat(h) ==
    /\ hpc[h] = "stat"
    /\ IF StatOK(h)
       THEN Gone(h)
       ELSE /\ hpc' = [hpc EXCEPT ![h] = "create"]
            /\ UNCHANGED <<hdst, hopt, hclen, hctx, hsum, heof, hsucc>>
    /\ UNCHANGED <<dest, temp, hret, hlog>>
    /\ UNCHANGED qvars

\* os.CreateTemp(filepath.Dir(destPath), ".httper-dl-*"); the directory of
\* an empty destPath is "."
HCreate(h, ok) ==
    /\ hpc[h] = "create"
    /\ IF ok
       THEN /\ temp' = [temp EXCEPT ![TempOf(h)] = File(<<>>)]
            /\ hpc' = [hpc EXCEPT ![h] = "copy"]
            /\ UNCHANGED <<hdst, hopt, hclen, hctx, hsum, heof, hsucc, hret>>
       ELSE /\ temp' = temp
            /\ hret' = [hret EXCEPT ![h] = Wrap1("creating temp file", EIO)]
            /\ Gone(h)
    /\ UNCHANGED <<dest, hlog>>
    /\ UNCHANGED qvars

CopyFailedM(h, e) ==
    /\ hpc' = [hpc EXCEPT ![h] = "len"]
    /\ UNCHANGED <<temp, hsum, heof, hret>>
\* what Handle returns when io.Copy fails with e
CopyFailed(h, e) ==
    /\ hret' = [hret EXCEPT ![h] = CopyErr(e)]
    /\ hpc' = [hpc EXCEPT ![h] = "defer"]
    /\ UNCHANGED <<temp, hsum, heof>>

ScopeDoneM(h) == FALSE
\* contextReader.Read: if err := r.ctx.Err(); err != nil { return 0, err }
ScopeDone(h) == hctx[h] # Nil

\* One round of io.Copy: contextReader.Read checks the scope first; a live
\* scope passes the read to the stream, which gives the next byte, its end
\* or an error; a byte read is written to the temp file and, with a
\* verifier, to the hash.
HCopy(h) ==
    /\ hpc[h] = "copy"
    /\ IF ScopeDone(h)
       THEN CopyFailed(h, hctx[h])
       ELSE \/ /\ Len(temp[TempOf(h)].data) < MaxLen
               /\ LET b == SrcByte(h, Len(temp[TempOf(h)].data) + 1) IN
                    /\ temp' = [temp EXCEPT ![TempOf(h)].data = Append(@, b)]
                    /\ hsum' = [hsum EXCEPT ![h] =
                                  IF hopt[h].hasSum THEN HashWrite(@, b) ELSE @]
               /\ UNCHANGED <<hpc, heof, hret>>
            \/ /\ heof' = [heof EXCEPT ![h] = TRUE]
               /\ hpc' = [hpc EXCEPT ![h] = "len"]
               /\ UNCHANGED <<temp, hsum, hret>>
            \/ CopyFailed(h, EIO)
    /\ UNCHANGED <<dest, hopt, hclen, hctx, hsucc, hlog>>
    /\ UNCHANGED hdst
    /\ UNCHANGED qvars

LengthWrongM(clen, n) == clen > 0 /\ n # clen
\* contentLength >= 0 && n != contentLength
LengthWrong(clen, n) == clen >= 0 /\ n # clen

\* if contentLength >= 0 && n != contentLength { return &Error{...} }
HLen(h) ==
    /\ hpc[h] = "len"
    /\ IF LengthWrong(hclen[h], Len(temp[TempOf(h)].data))
       THEN /\ hret' = [hret EXCEPT ![h] = DetailErr(ErrContentLengthMismatch)]
            /\ hpc' = [hpc EXCEPT ![h] = "defer"]
       ELSE /\ hret' = hret
            /\ hpc' = [hpc EXCEPT ![h] = "sum"]
    /\ UNCHANGED <<dest, temp, hopt, hclen, hctx, hsum, heof, hsucc, hlog>>
    /\ UNCHANGED hdst
    /\ UNCHANGED qvars

VerifyM(o, s) == Nil
\* checksumVerifier.Verify: a nil verifier passes
Verify(o, s) ==
    IF ~o.hasSum THEN Nil
    ELSE IF HexOf(s) # o.exp THEN DetailErr(ErrChecksumMismatch)
    ELSE Nil

\* if err := opts.checksum.Verify(); err != nil { return err }
HSum(h) ==
    /\ hpc[h] = "sum"
    /\ IF Verify(hopt[h], hsum[h]) # Nil
       THEN /\ hret' = [hret EXCEPT ![h] = Verify(hopt[h], hsum[h])]
            /\ hpc' = [hpc EXCEPT ![h] = "defer"]
       ELSE /\ hret' = hret
            /\ hpc' = [hpc EXCEPT ![h] = "sync"]
    /\ UNCHANGED <<dest, temp, hopt, hclen, hctx, hsum, heof, hsucc, hlog>>
    /\ UNCHANGED hdst
    /\ UNCHANGED qvars

\* if err := file.Sync(); err != nil { return ... }
HSync(h, ok) ==
    /\ hpc[h] = "sync"
    /\ IF ok
       THEN /\ hret' = hret
            /\ hpc' = [hpc EXCEPT ![h] = "close"]
       ELSE /\ hret' = [hret EXCEPT ![h] = Wrap1("syncing temp file", EIO)]
            /\ hpc' = [hpc EXCEPT ![h] = "defer"]
    /\ UNCHANGED <<dest, temp, hopt, hclen, hctx, hsum, heof, hsucc, hlog>>
    /\ UNCHANGED hdst
    /\ UNCHANGED qvars

\* if err := file.Close(); err != nil { return ... }
HClose(h, ok) ==
    /\ hpc[h] = "close"
    /\ IF ok
       THEN /\ hret' = hret
            /\ hpc' = [hpc EXCEPT ![h] = "rename"]
       ELSE /\ hret' = [hret EXCEPT ![h] = Wrap1("closing temp file", EIO)]
            /\ hpc' = [hpc EXCEPT ![h] = "defer"]
    /\ UNCHANGED <<dest, temp, hopt, hclen, hctx, hsum, heof, hsucc, hlog>>
    /\ UNCHANGED hdst
    /\ UNCHANGED qvars

HRenameM(h, ok) ==
    /\ hpc[h] = "rename"
    /\ ok => hdst[h] # ""
    /\ IF ok
       THEN /\ dest' = File(temp[TempOf(h)].data)
            /\ temp' = [temp EXCEPT ![TempOf(h)] = NoFile]
            /\ hsucc' = [hsucc EXCEPT ![h] = TRUE]
            /\ hret' = hret
       ELSE /\ hret' = hret
            /\ UNCHANGED <<dest, temp, hsucc>>
    /\ hpc' = [hpc EXCEPT ![h] = "defer"]
    /\ UNCHANGED <<hopt, hclen, hctx, hsum, heof, hlog>>
    /\ UNCHANGED hdst
    /\ UNCHANGED qvars
\* os.Rename(file.Name(), destPath); successful = true; return nil.
\* Renaming onto the empty path always fails.
HRename(h, ok) ==
    /\ hpc[h] = "rename"
    /\ ok => hdst[h] # ""
    /\ IF ok
       THEN /\ dest' = File(temp[TempOf(h)].data)
            /\ temp' = [temp EXCEPT ![TempOf(h)] = NoFile]
            /\ hsucc' = [hsucc EXCEPT ![h] = TRUE]
            /\ hret' = hret
       ELSE /\ hret' = [hret EXCEPT ![h] = Wrap1("renaming temp file", EIO)]
            /\ UNCHANGED <<dest, temp, hsucc>>
    /\ hpc' = [hpc EXCEPT ![h] = "defer"]
    /\ UNCHANGED <<hopt, hclen, hctx, hsum, heof, hlog>>
    /\ UNCHANGED hdst
    /\ UNCHANGED qvars

HDeferM(h, removed) ==
    /\ hpc[h] = "defer"
    /\ temp' = [temp EXCEPT ![TempOf(h)] = IF hsucc[h] /\ removed THEN NoFile ELSE @]
    /\ hlog' = [hlog EXCEPT ![h] = ~hsucc[h] /\ ~removed]
    /\ Gone(h)
    /\ UNCHANGED <<dest, hret>>
    /\ UNCHANGED qvars
\* The deferred function: file.Close(), whose error is only logged, then
\* if !successful { os.Remove(file.Name()) }, whose error is only logged.
HDefer(h, removed) ==
    /\ hpc[h] = "defer"
    /\ temp' = [temp EXCEPT ![TempOf(h)] = IF ~hsucc[h] /\ removed THEN NoFile ELSE @]
    /\ hlog' = [hlog EXCEPT ![h] = ~hsucc[h] /\ ~removed]
    /\ Gone(h)
    /\ UNCHANGED <<dest, hret>>
    /\ UNCHANGED qvars

\* the declared lengths: unknown, or a number of bytes
ContentLengths == -1..MaxLen

HInit ==
    /\ QInit(0)
    /\ dest \in {NoFile, File(OldData)}
    /\ HIdle

HNext ==
    \/ \E h \in Handles, destPath \in DestPaths, ops \in OptLists,
          clen \in ContentLengths : HStart(h, destPath, ops, clen)
    \/ \E h \in Handles, destPath \in DestPaths, ops \in OptLists,
          clen \in ContentLengths : Download(h, destPath, ops, clen)
    \/ \E h \in Handles, cause \in ScopeErrs : HScopeEnd(h, cause)
    \/ \E h \in Handles : HStat(h)
    \/ \E h \in Handles, ok \in BOOLEAN : HCreate(h, ok)
    \/ \E h \in Handles : HCopy(h)
    \/ \E h \in Handles : HLen(h)
    \/ \E h \in Handles : HSum(h)
    \/ \E h \in Handles, ok \in BOOLEAN : HSync(h, ok)
    \/ \E h \in Handles, ok \in BOOLEAN : HClose(h, ok)
    \/ \E h \in Handles, ok \in BOOLEAN : HRename(h, ok)
    \/ \E h \in Handles, removed \in BOOLEAN : HDefer(h, removed)

HandleSpec == HInit /\ [][HNext]_vars

\* ------------------------------------------------- two concurrent Handles
\* Two goroutines call Handle once each, with the same destPath, no options
\* and an unknown length, and their steps interleave.
PairHandles == {1, 2}

PairInit ==
    /\ QInit(0)
    /\ dest \in {NoFile, File(OldData)}
    /\ temp = [h \in PairHandles |-> NoFile]
    /\ hpc = [h \in PairHandles |-> "idle"]
    /\ hdst = [h \in PairHandles |-> "dest"]
    /\ hopt = [h \in PairHandles |-> NoOpts]
    /\ hclen = [h \in PairHandles |-> -1]
    /\ hctx = [h \in PairHandles |-> Nil]
    /\ hsum = [h \in PairHandles |-> 0]
    /\ heof = [h \in PairHandles |-> FALSE]
    /\ hsucc = [h \in PairHandles |-> FALSE]
    /\ hret = [h \in PairHandles |-> Nil]
    /\ hlog = [h \in PairHandles |-> FALSE]

PairStart(h) ==
    /\ hpc[h] = "idle"
    /\ HStart(h, "dest", <<>>, -1)

PairNext ==
    \/ \E h \in PairHandles : PairStart(h)
    \/ \E h \in PairHandles, ok \in BOOLEAN : HCreate(h, ok)
    \/ \E h \in PairHandles : HCopy(h)
    \/ \E h \in PairHandles : HLen(h)
    \/ \E h \in PairHandles : HSum(h)
    \/ \E h \in PairHandles, ok \in BOOLEAN : HSync(h, ok)
    \/ \E h \in PairHandles, ok \in BOOLEAN : HClose(h, ok)
    \/ \E h \in PairHandles, ok \in BOOLEAN : HRename(h, ok)
    \/ \E h \in PairHandles, removed \in BOOLEAN : HDefer(h, removed)

PairSpec == PairInit /\ [][PairNext]_vars

\* ------------------------------------------------------------------ claims
\* tasks that hold a gate slot: admitted and their deferred release not run
Admitted == {t \in Tasks : pc[t] \in {"chk", "work", "rel"}}

\* errors that report an ended scope
IsCancelErr(e) == Is(e, Canceled) \/ Is(e, DeadlineExceeded)

\* C1: with maxConcurrent = N > 0, at most N tasks are at the shutdown
\* check, in their work function or about to release their slot, in every
\* reachable state.
C1_GateBound == HasSem => Cardinality(Admitted) <= maxc
\* more tasks launched than slots: one runs while another waits at the gate
C1_Witness ==
    /\ HasSem
    /\ Cardinality(Admitted) = maxc
    /\ \E t \in Tasks : pc[t] = "admit"

\* C2: every step that changes the file at the destination path puts there
\* the whole of a stream that was read to its end without error; on all
\* other paths the destination keeps what it had.
C2_AtomicPublish ==
    [][dest' # dest =>
         \E h \in Handles :
            /\ heof[h]
            /\ hret[h] = Nil
            /\ temp[h].exists
            /\ dest' = File(temp[h].data)]_vars
\* a copy cut short by cancellation after a byte was written: the
\* destination is still absent
C2_Witness ==
    \E h \in Handles :
       /\ hpc[h] = "defer"
       /\ Is(hret[h], ErrDownloadCancelled)
       /\ Len(temp[h].data) > 0
       /\ ~heof[h]
       /\ dest = NoFile

C4_WaitCoversAll ==
    [][\A c \in Waiters :
         (cpc[c] # "woken" /\ cpc'[c] = "woken") =>
            \A t \in Tasks : Launched(t) => pc[t] = "exited"]_vars
\* Wait has returned from wg.Wait with two launched tasks, both exited
C4_Witness ==
    \E c \in Waiters :
       /\ cpc[c] = "woken"
       /\ Cardinality({t \in Tasks : Launched(t)}) >= 2
       /\ \A t \in Tasks : Launched(t) => pc[t] = "exited"

\* Results whose terminal error is set
Failed == {r \in Tasks : r <= nres /\ rerr[r] # Nil}

\* C5: the error list holds exactly one entry per failed Result; the value
\* Wait returns is nil iff no Result has failed, and otherwise matches the
\* error of every failed Result.
C5_WaitJoinsAll ==
    [][\A c \in Waiters :
         (cpc[c] = "woken" /\ cpc'[c] = "idle") =>
            /\ Len(errs) = Cardinality(Failed)
            /\ cres'[c] = Nil <=> Failed = {}
            /\ \A r \in Failed : Is(cres'[c], rerr[r])]_vars
\* Wait returned a non-nil error although one transfer had ended with nil
C5_Witness ==
    \E c \in Waiters, r \in Tasks, u \in Failed :
       /\ cpc[c] = "idle" /\ ctgt[c] = 0
       /\ pc[r] = "exited" /\ rerr[r] = Nil
       /\ Is(cres[c], rerr[u])

\* a step of Result.Cancel that ends a scope: private scopes change while
\* no task moves, nothing is launched and the caller's scope stays
CancelStep ==
    ctxErr' # ctxErr /\ pc' = pc /\ nres' = nres /\ topErr' = topErr

\* C6: a Cancel ends the private scope of exactly one task and changes
\* nothing else, and a task's terminal error reports an ended scope only if
\* its own scope had ended when the error was set.
C6_CancelIsPrivate ==
    [][/\ CancelStep =>
            /\ \E r \in Tasks :
                  /\ Launched(r)
                  /\ ctxErr[r] = Nil
                  /\ ctxErr' = [ctxErr EXCEPT ![r] = Canceled]
            /\ UNCHANGED <<sem, shutdown, errs, wg, rerr, done, slot, ran>>
       /\ \A t \in Tasks :
            (rerr'[t] # rerr[t] /\ IsCancelErr(rerr'[t])) => ctxErr[t] # Nil]_vars
\* one task ended with a cancellation error while a sibling whose scope is
\* still live has finished its work with nil
C6_Witness ==
    \E r \in Tasks, u \in Tasks :
       /\ r # u
       /\ Is(rerr[r], Canceled)
       /\ topErr = Nil
       /\ pc[u] \in {"rel", "fin"}
       /\ ran[u] /\ rerr[u] = Nil /\ ctxErr[u] = Nil

\* C7: the shutdown flag is never reset; a task that runs the shutdown
\* check with the flag set gets ErrGroupShutdown as its terminal error,
\* which is appended to the error list, and its work function is not and
\* was not invoked.
C7_ShutdownStopsNewWork ==
    [][/\ shutdown => shutdown'
       /\ \A t \in Tasks :
            (pc[t] = "chk" /\ pc'[t] # "chk" /\ shutdown) =>
               /\ rerr'[t] = ErrGroupShutdown
               /\ errs' = Append(errs, ErrGroupShutdown)
               /\ pc'[t] \in {"rel", "fin"}
       /\ \A t \in Tasks : rerr'[t] = ErrGroupShutdown => ~ran'[t]]_vars
\* a task that was admitted after Shutdown has exited with ErrGroupShutdown
\* without running its work function
C7_Witness ==
    \E t \in Tasks :
       /\ HasSem
       /\ pc[t] = "exited"
       /\ rerr[t] = ErrGroupShutdown
       /\ ~ran[t]

\* C8: a step that sets the shutdown flag changes nothing else (no scope,
\* no slot, no position, no recorded state), and a task that is in its work
\* function never gets ErrGroupShutdown.
C8_ShutdownOnlySetsFlag ==
    [][/\ shutdown' # shutdown =>
            UNCHANGED <<sem, errs, wg, topErr, nres, pc, rerr, done, ctxErr,
                        slot, ran>>
       /\ \A t \in Tasks : pc[t] = "work" => rerr'[t] # ErrGroupShutdown]_vars
\* Shutdown was called while a task was in its work function, and the task
\* is still running with a live scope
C8_Witness ==
    \E t \in Tasks :
       /\ shutdown
       /\ pc[t] = "work"
       /\ ctxErr[t] = Nil
       /\ slot[t]

\* C9 as stated: a task that waits for admission with an ended scope is
\* never admitted.
C9_EndedScopeNeverAdmitted ==
    [][\A t \in Tasks :
         (pc[t] = "admit" /\ ctxErr[t] # Nil) =>
            /\ pc'[t] \in {"admit", "fin"}
            /\ ~slot'[t]]_vars
\* C9 amended: a task that waits for admission with an ended scope while no
\* slot is free can only leave the wait with the scope's error as its
\* terminal error and appended to the error list, without a slot; and a
\* task whose terminal error is the bare scope error never held a slot at
\* its exit and never invoked its work function.
C9_EndedScopeAtFullGate ==
    [][/\ \A t \in Tasks :
            (pc[t] = "admit" /\ ctxErr[t] # Nil /\ sem >= maxc
             /\ pc'[t] # "admit") =>
               /\ rerr'[t] = ctxErr[t]
               /\ errs' = Append(errs, ctxErr[t])
               /\ pc'[t] = "fin"
               /\ ~slot'[t]
       /\ \A t \in Tasks :
            rerr'[t] \in ScopeErrs => (~ran'[t] /\ ~slot'[t])]_vars
\* a task left the full gate with the error of its expired scope
C9_Witness ==
    \E t \in Tasks :
       /\ HasSem /\ sem = maxc
       /\ pc[t] = "fin"
       /\ rerr[t] = DeadlineExceeded
       /\ ~ran[t]

\* C10: Err returns only when the Result's done channel is closed, and
\* returns that Result's own err, which no step changes once done is
\* closed; what Wait returns is nil or the join of the whole error list.
C10_ErrIsOwnError ==
    [][/\ \A c \in Waiters :
            (cpc[c] = "errwait" /\ cpc'[c] = "idle") =>
               /\ done[ctgt[c]]
               /\ cres'[c] = rerr'[ctgt[c]]
               /\ cres'[c].kind # "join"
       /\ \A r \in Tasks : done[r] => (done'[r] /\ rerr'[r] = rerr[r])
       /\ \A c \in Waiters :
            (cpc[c] = "woken" /\ cpc'[c] = "idle") =>
               \/ cres'[c] = Nil
               \/ cres'[c].kind = "join" /\ Len(cres'[c].subs) = Len(errs)]_vars
\* Err on a Result that succeeded returned nil although a sibling failed
C10_Witness ==
    \E c \in Waiters, u \in Failed :
       /\ cpc[c] = "idle"
       /\ ctgt[c] \in 1..nres
       /\ ctgt[c] # u
       /\ ran[ctgt[c]]
       /\ cres[c] = Nil

\* a step of Add on destination d whose caller passed WithBatch
AddWithBatch(d) ==
    \E r \in Tasks, optFns \in AddOptLists :
       /\ \E i \in 1..Len(optFns) : optFns[i] = "WithBatch"
       /\ Add(r, d, optFns)

\* C11: an Add whose caller passed WithBatch launches nothing: the counter
\* and every scope stay as they were, the new Result is pre-failed in this
\* same Queue with its done channel closed and a configuration error as its
\* err (the WithBatch error when the destination path is not empty); a
\* pre-failed Result never changes afterwards, whatever is called on it, and
\* Err on it returns its err.
C11_AddWithBatchRejected ==
    [][/\ \A d \in DestPaths :
            AddWithBatch(d) =>
               /\ nres' = nres + 1
               /\ pc'[nres'] = "prefailed"
               /\ wg' = wg
               /\ ctxErr' = ctxErr
               /\ group'[nres'] = ThisQueue
               /\ \A t \in 1..nres : group'[t] = group[t]
               /\ done'[nres']
               /\ rerr'[nres'] = IF d = "" THEN ErrDestEmpty ELSE ErrConfig
       /\ \A t \in Tasks :
            pc[t] = "prefailed" =>
               /\ pc'[t] = "prefailed"
               /\ done[t] /\ done'[t]
               /\ rerr'[t] = rerr[t]
               /\ ctxErr'[t] = ctxErr[t]
               /\ group'[t] = group[t]
       /\ \A c \in Waiters :
            (cpc[c] = "errwait" /\ pc[ctgt[c]] = "prefailed"
             /\ cpc'[c] = "idle") => cres'[c] = rerr[ctgt[c]]]_vars
\* Err on the Result of an Add with WithBatch has returned the
\* configuration error while the transfer started before it still runs
C11_Witness ==
    \E c \in Waiters, t \in Tasks, u \in Tasks :
       /\ pc[t] = "prefailed"
       /\ rerr[t] = ErrConfig
       /\ cpc[c] = "idle" /\ ctgt[c] = t /\ cres[c] = ErrConfig
       /\ pc[u] = "work"
       /\ wg = 1

C13_AddKeepsQueue ==
    [][/\ \A t \in 1..nres' : group'[t] = ThisQueue
       /\ \A r \in Tasks, d \in DestPaths, optFns \in AddOptLists :
            Add(r, d, optFns) =>
               /\ group'[nres'] = group[r]
               /\ pc'[nres'] \in {"prefailed", "admit", "chk"}
               /\ pc'[nres'] # "prefailed" =>
                     /\ wg' = wg + 1
                     /\ pc'[nres'] = IF maxc > 0 THEN "admit" ELSE "chk"
                     /\ errs' = errs
               /\ pc'[nres'] = "prefailed" =>
                     /\ wg' = wg
                     /\ errs' = Append(errs, rerr'[nres'])]_vars
\* a batch of a pre-failed Result and a transfer that holds the one slot of
\* the gate, both in this Queue
C13_Witness ==
    \E t \in Tasks, u \in Tasks :
       /\ pc[t] = "prefailed" /\ group[t] = ThisQueue
       /\ pc[u] = "work" /\ group[u] = ThisQueue /\ slot[u]
       /\ wg = 1 /\ Len(errs) = 1

\* hex digest of a byte sequence fed to a fresh hash
RECURSIVE HashAll(_)
HashAll(d) ==
    IF d = <<>> THEN 0
    ELSE HashWrite(HashAll(SubSeq(d, 1, Len(d) - 1)), d[Len(d)])
DigestOf(d) == HexOf(HashAll(d))

\* The checksum step of call h: with a verifier whose expected value differs
\* from the digest of the temp file's bytes the call fails with an error
\* matching ErrChecksumMismatch; otherwise (no verifier, or equal) it goes on
\* to Sync. The rename happens only with an equal digest, and the
\* destination is unchanged while the call carries the checksum error.
ChecksumDecides(h) ==
    /\ (hpc[h] = "sum" /\ hpc'[h] # "sum") =>
          IF hopt[h].hasSum /\ DigestOf(temp[h].data) # hopt[h].exp
          THEN Is(hret'[h], ErrChecksumMismatch) /\ hpc'[h] = "defer"
          ELSE hret'[h] = Nil /\ hpc'[h] = "sync"
    /\ (hsucc'[h] /\ ~hsucc[h] /\ hopt[h].hasSum) =>
          DigestOf(temp[h].data) = hopt[h].exp
    /\ Is(hret'[h], ErrChecksumMismatch) => dest' = dest

LengthDecides(h) ==
    /\ (hpc[h] = "len" /\ hpc'[h] # "len") =>
          IF hclen[h] >= 0 /\ Len(temp[h].data) # hclen[h]
          THEN Is(hret'[h], ErrContentLengthMismatch) /\ hpc'[h] = "defer"
          ELSE hret'[h] = Nil /\ hpc'[h] = "sum"
    /\ (hsucc'[h] /\ ~hsucc[h] /\ hclen[h] >= 0) =>
          Len(temp[h].data) = hclen[h]
    /\ Is(hret'[h], ErrContentLengthMismatch) => dest' = dest

C16_SkipExisting ==
    [][\A h \in Handles :
         /\ hpc[h] = "stat" => (hopt[h].skip /\ temp[h] = NoFile /\ ~heof[h])
         /\ (hpc[h] = "stat" /\ hdst[h] # "" /\ dest.exists
             /\ hpc'[h] # "stat") =>
               /\ hpc'[h] = "ret"
               /\ hret'[h] = Nil
               /\ temp'[h] = NoFile
               /\ dest' = dest]_vars
\* a call has returned nil and the destination still holds its old bytes
C16_Witness ==
    \E h \in Handles :
       /\ hpc[h] = "ret"
       /\ hret[h] = Nil
       /\ dest = File(OldData)
       /\ temp[h] = NoFile

\* C17: a call with an empty destination path never has a temp file: it is
\* refused before any I/O, in Handle as in Client.Download.
C17_EmptyDestRejected ==
    \A h \in Handles : hdst[h] = "" => ~temp[h].exists

\* C18: a copy that fails while the scope of the call has ended (cancelled
\* or deadline passed) makes Handle return an error matching
\* ErrDownloadCancelled; a copy that fails with the scope live makes it
\* return an error that does not match it; the destination is unchanged and
\* the call leaves no temp file.
C18_ScopeEndIsCancellation ==
    [][\A h \in Handles :
         /\ (hpc[h] = "copy" /\ hpc'[h] = "defer") =>
               /\ hret'[h] # Nil
               /\ Is(hret'[h], ErrDownloadCancelled) <=> hctx[h] # Nil
               /\ dest' = dest
         /\ (hpc'[h] = "ret" /\ ~heof[h] /\ hret'[h] # Nil
             /\ hpc[h] = "defer") => ~temp'[h].exists]_vars

\* C19: a Queue made with maxConcurrent <= 0 has no gate: no task ever
\* waits for admission or holds a slot, and the channel is never used.
C19_NoGateWhenUnlimited ==
    maxc <= 0 =>
       /\ sem = 0
       /\ \A t \in Tasks : pc[t] # "admit" /\ ~slot[t]
\* every Result the model can hand out is a transfer inside its work
\* function at the same time, in a Queue made with a negative limit
C19_Witness ==
    /\ maxc < 0
    /\ \A t \in Tasks : pc[t] = "work"

C21_TopCancelReachesAll ==
    [][/\ topErr' # topErr =>
            /\ topErr = Nil
            /\ \A t \in Tasks :
                  Launched(t) =>
                     ctxErr'[t] = IF ctxErr[t] = Nil THEN topErr' ELSE ctxErr[t]
       /\ topErr' # Nil => \A t \in Tasks : Launched(t)' => ctxErr'[t] # Nil
       /\ \A r \in Tasks : Cancel(r) => topErr' = topErr
       /\ \A t \in Tasks :
            (pc[t] = "fin" /\ pc'[t] = "wgdone") => topErr' = topErr]_vars
\* the caller's scope was cancelled while one transfer was in its work
\* function and another waited for a slot: both scopes are cancelled
C21_Witness ==
    \E t \in Tasks, u \in Tasks :
       /\ topErr = Canceled
       /\ pc[t] = "work" /\ ctxErr[t] = Canceled
       /\ pc[u] = "admit" /\ ctxErr[u] = Canceled

\* C22: done is closed in one step only, the task's deferred function (or
\* the creation of a pre-failed Result), and stays closed; a task past
\* that step, on whatever path it came, has done closed; err is written
\* only while it is still nil and done still open, and no step, Cancel
\* included, changes it once done is closed.
C22_DoneOnceErrOnce ==
    [][\A t \in Tasks :
         /\ done[t] => done'[t]
         /\ (done'[t] /\ ~done[t]) =>
               \/ pc[t] = "fin" /\ pc'[t] = "wgdone"
               \/ pc[t] = "none" /\ pc'[t] = "prefailed"
         /\ pc'[t] \in {"wgdone", "exited", "prefailed"} => done'[t]
         /\ pc'[t] \in {"admit", "chk", "work", "rel", "fin"} => ~done'[t]
         /\ rerr'[t] # rerr[t] => (rerr[t] = Nil /\ ~done[t])
         /\ done[t] => rerr'[t] = rerr[t]]_vars
\* one task left the gate with its scope's error, the other returned its
\* work's error; both have exited with done closed
C22_Witness ==
    \E t \in Tasks, u \in Tasks :
       /\ pc[t] = "exited" /\ done[t] /\ rerr[t] \in ScopeErrs /\ ~ran[t]
       /\ pc[u] = "exited" /\ done[u] /\ rerr[u] = WorkErr(u)

\* C25: the step that sets the shutdown flag leaves every task that waits
\* for a slot waiting; with the flag set, such a task leaves the wait only
\* by taking a slot that was free, after which the shutdown check gives it
\* ErrGroupShutdown, or with the error of its ended scope.
C25_ShutdownKeepsWaiters ==
    [][\A t \in Tasks :
         /\ (shutdown' # shutdown /\ pc[t] = "admit") =>
               (pc'[t] = "admit" /\ ctxErr'[t] = ctxErr[t])
         /\ (shutdown /\ pc[t] = "admit" /\ pc'[t] # "admit") =>
               \/ /\ pc'[t] = "chk"
                  /\ sem < maxc
                  /\ sem' = sem + 1
                  /\ slot'[t]
                  /\ rerr'[t] = Nil
               \/ /\ pc'[t] = "fin"
                  /\ ctxErr[t] # Nil
                  /\ rerr'[t] = ctxErr[t]
                  /\ ~slot'[t]
         /\ (shutdown /\ pc[t] = "chk" /\ pc'[t] # "chk") =>
               rerr'[t] = ErrGroupShutdown]_vars
\* Shutdown was called and a task with a live scope still waits at the
\* full gate while the task that holds the slot runs on
C25_Witness ==
    \E t \in Tasks, u \in Tasks :
       /\ shutdown
       /\ pc[t] = "admit" /\ ctxErr[t] = Nil
       /\ pc[u] = "work" /\ slot[u]
       /\ sem = maxc

\* C27: the channel holds one token per task that has taken a slot and not
\* yet released it, only tasks between admission and release hold one, and
\* a token is returned in one step only, the deferred receive; the counter
\* equals the number of launched tasks that have not run wg.Done, and drops
\* by one in one step only, the task's last; so with every launched task
\* exited the channel is empty and the counter zero.
C27_ReleaseAndDoneOnce ==
    [][/\ sem' = Cardinality({t \in Tasks : slot'[t]})
       /\ wg' = Cardinality({t \in Tasks : Launched(t)' /\ pc'[t] # "exited"})
       /\ \A t \in Tasks :
            /\ slot'[t] <=> (maxc > 0 /\ pc'[t] \in {"chk", "work", "rel"})
            /\ (slot[t] /\ ~slot'[t]) =>
                  (pc[t] = "rel" /\ pc'[t] = "fin" /\ sem' = sem - 1)
            /\ (pc[t] # "exited" /\ pc'[t] = "exited") =>
                  (pc[t] = "wgdone" /\ wg' = wg - 1)
            /\ pc[t] = "exited" => pc'[t] = "exited"
       /\ wg' < wg => \E t \in Tasks : pc[t] = "wgdone" /\ pc'[t] = "exited"]_vars
\* every task has exited, one on the shutdown path after admission and one
\* with its work's error, and the gate and the counter are back at zero
C27_Witness ==
    \E t \in Tasks, u \in Tasks :
       /\ maxc > 0
       /\ \A v \in Tasks : pc[v] = "exited"
       /\ rerr[t] = ErrGroupShutdown
       /\ rerr[u] = WorkErr(u)
       /\ sem = 0 /\ wg = 0

\* C29: a launched Result whose done is closed holds no slot and has its
\* non-nil err in the error list; the counter drops only for a task whose
\* done is closed; and at the step where wg.Wait lets a caller go on every
\* launched Result has done closed.
C29_DoneAfterReleaseAndRecord ==
    [][/\ \A t \in Tasks :
            (Launched(t)' /\ done'[t]) =>
               /\ ~slot'[t]
               /\ rerr'[t] # Nil =>
                     \E i \in 1..Len(errs') : errs'[i] = rerr'[t]
       /\ \A t \in Tasks :
            (pc[t] # "exited" /\ pc'[t] = "exited") => done[t]
       /\ \A c \in Waiters :
            (cpc[c] # "woken" /\ cpc'[c] = "woken") =>
               \A t \in Tasks : Launched(t) => done[t]]_vars
\* Wait has returned the error of a task that had held the slot; its done
\* is closed and the slot is free again
C29_Witness ==
    \E c \in Waiters, t \in Tasks :
       /\ maxc > 0
       /\ cpc[c] = "idle" /\ ctgt[c] = 0
       /\ Is(cres[c], WorkErr(t))
       /\ done[t] /\ ~slot[t] /\ sem = 0

\* C28: under fair scheduling every launched task eventually exits and its
\* done is closed, and every caller inside Wait or Err eventually returns.
C28_AllExitAllWaitsReturn ==
    /\ \A t \in Tasks :
         [](Launched(t) => <>(pc[t] = "exited" /\ done[t]))
    /\ \A c \in Waiters : [](cpc[c] # "idle" => <>(cpc[c] = "idle"))
\* The same with the panic of sync.WaitGroup set aside: every behaviour in
\* which a task never exits or a Wait never returns ends in that panic.
C28_ExitOrPanic ==
    /\ \A t \in Tasks :
         [](Launched(t) => <>(panicked \/ (pc[t] = "exited" /\ done[t])))
    /\ \A c \in Waiters :
         [](cpc[c] # "idle" => <>(panicked \/ cpc[c] = "idle"))
\* a task launched while a released waiter had not yet resumed; the waiter
\* resumed, found the counter raised, and the process panicked
C28_Stuck ==
    \E t \in Tasks, c \in Waiters :
       /\ panicked
       /\ Launched(t) /\ pc[t] # "exited" /\ ~done[t]
       /\ cpc[c] = "released"

\* The order of Handle's steps up to the rename: the rename is reached from
\* the close only, the close from the sync, the sync from a passed checksum
\* check, that check from a passed length check, and the length check from
\* a copy that met the end of the stream; the destination changes in the
\* rename step only, and a failed sync, close or rename sets an error.
RenameLast(h) ==
    /\ (hpc'[h] = "len" /\ hpc[h] # "len") =>
          (hpc[h] = "copy" /\ heof'[h] /\ hret'[h] = Nil)
    /\ (hpc'[h] = "sum" /\ hpc[h] # "sum") =>
          (hpc[h] = "len" /\ ~LengthWrong(hclen[h], Len(temp[h].data)))
    /\ (hpc'[h] = "sync" /\ hpc[h] # "sync") =>
          (hpc[h] = "sum" /\ Verify(hopt[h], hsum[h]) = Nil)
    /\ (hpc'[h] = "close" /\ hpc[h] # "close") => hpc[h] = "sync"
    /\ (hpc'[h] = "rename" /\ hpc[h] # "rename") => hpc[h] = "close"
    /\ hpc[h] \in {"len", "sum", "sync", "close"} =>
          (temp'[h] = temp[h] /\ hsum'[h] = hsum[h])
    /\ dest' # dest =>
          /\ hpc[h] = "rename"
          /\ dest' = File(temp[h].data)
          /\ hsucc'[h] /\ ~hsucc[h]
    /\ (hsucc'[h] /\ ~hsucc[h]) => dest' = File(temp[h].data)
    /\ (hpc[h] \in {"sync", "close", "rename"} /\ hpc'[h] = "defer"
          /\ ~hsucc'[h]) => hret'[h] # Nil
\* the step in which Handle returns
Returns(h) == hpc[h] \notin {"idle", "ret"} /\ hpc'[h] = "ret"

C24_ReadChecksScopeFirst ==
    [][\A h \in Handles :
         hpc[h] = "copy" /\ <<hpc[h], temp[h], heof[h], hret[h]>>
                            # <<hpc'[h], temp'[h], heof'[h], hret'[h]>> =>
           IF hctx[h] # Nil
           THEN /\ temp'[h] = temp[h]
                /\ heof'[h] = heof[h]
                /\ hsum'[h] = hsum[h]
                /\ Is(hret'[h], hctx[h])
                /\ hpc'[h] = "defer"
           ELSE \/ /\ temp'[h].data =
                        Append(temp[h].data, SrcByte(h, Len(temp[h].data) + 1))
                   /\ hpc'[h] = "copy" /\ ~heof'[h] /\ hret'[h] = Nil
                \/ /\ temp'[h] = temp[h]
                   /\ hpc'[h] = "len" /\ heof'[h] /\ hret'[h] = Nil
                \/ /\ temp'[h] = temp[h]
                   /\ hpc'[h] = "defer" /\ ~heof'[h] /\ Is(hret'[h], EIO)]_vars
\* the deadline passed after one byte was read; the next read failed with
\* the scope's error and no further byte reached the temp file
C24_Witness ==
    \E h \in Handles :
       /\ hpc[h] = "defer"
       /\ hctx[h] = DeadlineExceeded
       /\ Is(hret[h], DeadlineExceeded)
       /\ temp[h] = File(<<SrcByte(h, 1)>>)
       /\ ~heof[h]

\* whether an option of Handle fails when applied, and with what
OptErr(op) ==
    IF op.name # "WithChecksum" THEN Nil
    ELSE IF op.nilHash THEN MkErr("hash must not be nil", 0, <<>>)
    ELSE IF op.exp = "" THEN MkErr("expected checksum must not be empty", 0, <<>>)
    ELSE Nil
\* the position of the first failing option of a list, 0 when none fails
FirstFail(ops) ==
    IF \A i \in 1..Len(ops) : OptErr(ops[i]) = Nil THEN 0
    ELSE CHOOSE i \in 1..Len(ops) :
            /\ OptErr(ops[i]) # Nil
            /\ \A j \in 1..(i - 1) : OptErr(ops[j]) = Nil
\* the last WithChecksum of a list, 0 when there is none
LastSum(ops) ==
    IF \A i \in 1..Len(ops) : ops[i].name # "WithChecksum" THEN 0
    ELSE CHOOSE i \in 1..Len(ops) :
            /\ ops[i].name = "WithChecksum"
            /\ \A j \in (i + 1)..Len(ops) : ops[j].name # "WithChecksum"

\* The option loop over every list: a list with a failing option gives what
\* the options before the first failing one give, with that option's error;
\* a list with none is applied in order, a later WithChecksum replacing an
\* earlier one.
LoopStopsAtFirstFailure ==
    \A ops \in OptLists :
       IF FirstFail(ops) # 0
       THEN ApplyOptions(ops) =
              [ApplyOptions(SubSeq(ops, 1, FirstFail(ops) - 1))
                 EXCEPT !.err = OptErr(ops[FirstFail(ops)])]
       ELSE /\ ApplyOptions(ops).err = Nil
            /\ ApplyOptions(ops).skip <=>
                 \E i \in 1..Len(ops) : ops[i].name = "WithSkipExisting"
            /\ ApplyOptions(ops).hasSum <=> LastSum(ops) # 0
            /\ LastSum(ops) # 0 =>
                 ApplyOptions(ops).exp = ops[LastSum(ops)].exp
\* what Handle returns when an option fails
OptionFailures == {Wrap1("applying option", OptErr(op)) : op \in Opts} \ {Wrap1("applying option", Nil)}
\* the options Handle goes on with, over every list without a failing option
GoodOutcomes == {ApplyOptions(ops) : ops \in {l \in OptLists : FirstFail(l) = 0}}
\* the step in which Handle is called
Called(h) == hpc[h] \in {"idle", "ret"} /\ <<hpc[h], hret[h], hopt[h]>> # <<hpc'[h], hret'[h], hopt'[h]>>

\* C30: the option loop stops at the first failing option; a call of
\* Handle in which an option fails returns that option's error wrapped as
\* "applying option", with no temp file, the destination untouched and
\* nothing read, and a call that goes on does so with the options of a
\* list in which no option fails. WithBatch applied to options whose
\* Group is set fails and leaves the Group as it was.
C30_FirstFailingOptionStops ==
    [][/\ LoopStopsAtFirstFailure
       /\ \A q \in {ThisQueue, OtherQueue} :
            WithBatch([grp |-> q, err |-> Nil]) = [grp |-> q, err |-> ErrConfig]
       /\ \A h \in Handles :
            /\ (Called(h) /\ hret'[h] \in OptionFailures) =>
                  /\ hpc'[h] = "ret"
                  /\ ~temp'[h].exists
                  /\ dest' = dest
                  /\ hopt'[h] = hopt[h] /\ hsum'[h] = hsum[h]
                  /\ heof'[h] = heof[h]
            /\ (Called(h) /\ hpc'[h] # "ret") =>
                  /\ hopt'[h] \in GoodOutcomes
                  /\ hret'[h] = Nil
                  /\ hpc'[h] = IF hopt'[h].skip THEN "stat" ELSE "create"
            /\ hret'[h] \in OptionFailures => hpc'[h] = "ret"]_vars
\* Handle returned the error of a nil hash wrapped as "applying option":
\* no temp file exists and the destination still holds the bytes that an
\* earlier call put there
C30_Witness ==
    \E h \in Handles :
       /\ hpc[h] = "ret"
       /\ hret[h] = Wrap1("applying option", MkErr("hash must not be nil", 0, <<>>))
       /\ ~temp[h].exists
       /\ dest = File([i \in 1..MaxLen |-> SrcByte(h, i)])

\* the bytes call h has read when it has read n of them
Stream(h, n) == [i \in 1..n |-> SrcByte(h, i)]
\* a file that holds the first bytes of the stream of call h and no others
FromOne(f, h) == f.data = Stream(h, Len(f.data))

\* C26: two calls of Handle for one destPath run side by side; each temp
\* file holds bytes of its own call's stream only; a rename needs nothing
\* of the other call and puts all the bytes its call read, up to the end
\* of its stream, at the destination whatever was there; so the
\* destination holds what it held before both calls or the whole stream of
\* one call, the one that renamed last.
C26_LastRenameWins ==
    [][/\ \A h \in PairHandles : temp'[h].exists => FromOne(temp'[h], h)
       /\ \/ dest' \in {NoFile, File(OldData)}
          \/ \E h \in PairHandles : FromOne(dest', h)
       /\ \A h \in PairHandles :
            (hsucc'[h] /\ ~hsucc[h]) =>
               /\ hpc[h] = "rename" /\ heof[h]
               /\ dest' = File(Stream(h, Len(temp[h].data)))
               /\ \A g \in PairHandles \ {h} :
                    <<hpc'[g], temp'[g], hret'[g], hsucc'[g]>> =
                    <<hpc[g], temp[g], hret[g], hsucc[g]>>
       /\ dest' # dest => \E h \in PairHandles : hsucc'[h] /\ ~hsucc[h]]_vars
\* both calls have renamed, neither has returned yet, and the destination
\* holds the two bytes of the second call's stream: the first call's byte
\* was replaced
C26_Witness ==
    /\ hsucc[1] /\ hpc[1] = "defer" /\ hret[1] = Nil
    /\ hsucc[2] /\ hpc[2] = "defer" /\ hret[2] = Nil
    /\ dest = File(Stream(2, MaxLen))

====
